---- MODULE Spec2Model ----
(***************************************************************************)
(* Model of scripts/dtc/libfdt/mkdtboimg.py: the DtEntry and Dtbo classes. *)
(* One Dtbo object and the file behind it are modelled.  A file is a       *)
(* sequence of bytes (0..255); a command-line number is a sequence of      *)
(* one-character strings.                                                  *)
(*                                                                         *)
(* TLC's integers stop at 2^31-1.  The two magic numbers are larger, so    *)
(* the magic field is kept as the four big-endian bytes that '>I' packs it *)
(* to; every other field is an integer and is packed and unpacked with     *)
(* pack_I / unpack_I.  The script is Python 2 code (array('c'), str         *)
(* buffers, integer '/'); its semantics are those of CPython 2.7.           *)
(***************************************************************************)
EXTENDS Integers, Sequences, FiniteSets, TLC

\* ------------------------------------------------------------ bounds
\* Longest list handed to add_dt_entries.
MaxEntries == 3

\* ------------------------------------------------------------ constants
NO_COMPRESSION == 0
ZLIB_COMPRESSION == 1
GZIP_COMPRESSION == 2
_COMPRESSION_FORMAT_MASK == 15

_DTBO_MAGIC == <<215, 183, 171, 30>>       \* 0xd7b7ab1e
_ACPIO_MAGIC == <<65, 67, 80, 73>>         \* 0x41435049
_DT_TABLE_HEADER_SIZE == 32
_DT_TABLE_HEADER_INTS == 8
_DT_ENTRY_HEADER_SIZE == 32
_DT_ENTRY_HEADER_INTS == 8

\* Python's None.  A dt_file that is None is written NoFile, a handle without
\* a file name, so that it compares with the handles of the build side.
None == "None"
NoFile == [name |-> None]

\* ------------------------------------------------------------ exceptions
Exc(type, msg) == [exc |-> type, msg |-> msg]
NoError == Exc("none", "")

\* ------------------------------------------------------------ struct '>I'
\* struct.pack('>I', n): the four bytes of n, most significant first.
pack_I(n) ==
    << (n \div 16777216) % 256, (n \div 65536) % 256, (n \div 256) % 256, n % 256 >>

\* struct.unpack('>I', b): the value of four big-endian bytes.
unpack_I(b) == ((b[1] * 256 + b[2]) * 256 + b[3]) * 256 + b[4]

\* The i-th (0-based) 32-bit word of a byte buffer, still packed.
WordBytes(buf, i) == SubSeq(buf, 4 * i + 1, 4 * i + 4)

\* struct.pack_into(fmt, buf, off, ...): bytes `data` written over buf at
\* byte offset off.
pack_into(buf, off, data) ==
    [p \in 1..Len(buf) |->
        IF p > off /\ p <= off + Len(data) THEN data[p - off] ELSE buf[p]]

\* ------------------------------------------------------------ str and int
DigitChars == <<"0", "1", "2", "3", "4", "5", "6", "7", "8", "9">>

\* The value of one digit character, 99 for a character that is no digit.
DigitVal(c) ==
    CASE c = "0" -> 0 [] c = "1" -> 1 [] c = "2" -> 2 [] c = "3" -> 3
      [] c = "4" -> 4 [] c = "5" -> 5 [] c = "6" -> 6 [] c = "7" -> 7
      [] c = "8" -> 8 [] c = "9" -> 9
      [] c \in {"a", "A"} -> 10 [] c \in {"b", "B"} -> 11
      [] c \in {"c", "C"} -> 12 [] c \in {"d", "D"} -> 13
      [] c \in {"e", "E"} -> 14 [] c \in {"f", "F"} -> 15
      [] OTHER -> 99

\* str(n) for n >= 0: the decimal digits of n.
RECURSIVE str(_)
str(n) ==
    IF n < 10 THEN << DigitChars[n + 1] >>
    ELSE Append(str(n \div 10), DigitChars[(n % 10) + 1])

RECURSIVE ParseDigits(_, _, _)
ParseDigits(s, base, acc) ==
    IF s = << >> THEN acc
    ELSE IF DigitVal(Head(s)) >= base THEN -1
    ELSE ParseDigits(Tail(s), base, acc * base + DigitVal(Head(s)))

\* int(arg, base) for an unsigned literal; -1 stands for ValueError.
\* Base 16 accepts a leading 0x / 0X.
int(arg, base) ==
    LET body == IF base = 16 /\ Len(arg) >= 2 /\ arg[1] = "0" /\ arg[2] \in {"x", "X"}
                THEN SubSeq(arg, 3, Len(arg))
                ELSE arg
    IN  IF body = << >> THEN -1 ELSE ParseDigits(body, base, 0)

\* DtEntry.__get_number_or_prop; -1 stands for ValueError.
get_number_or_prop(arg) ==
    IF arg = << >> \/ arg[1] = "+" \/ arg[1] = "-" THEN -1
    ELSE IF arg[1] = "/" THEN -1
    ELSE IF Len(arg) >= 2 /\ arg[1] = "0" /\ arg[2] \in {"x", "X"} THEN int(arg, 16)
    ELSE IF arg[1] = "0" THEN int(arg, 8)
    ELSE int(arg, 10)

\* DtEntry.__init__: the entry built from the keyword arguments.
DtEntry(kwargs) ==
    [ dt_file   |-> kwargs.dt_file,
      dt_offset |-> kwargs.dt_offset,
      dt_size   |-> kwargs.dt_size,
      id        |-> get_number_or_prop(kwargs.id),
      rev       |-> get_number_or_prop(kwargs.rev),
      flags     |-> get_number_or_prop(kwargs.flags),
      custom0   |-> get_number_or_prop(kwargs.custom0),
      custom1   |-> get_number_or_prop(kwargs.custom1),
      custom2   |-> get_number_or_prop(kwargs.custom2) ]

\* DtEntry.compression_info.  flags & 0x0f is flags modulo mask + 1.
compression_info(dt_entry, ver) ==
    IF ver = 0 THEN NO_COMPRESSION
    ELSE dt_entry.flags % (_COMPRESSION_FORMAT_MASK + 1)

\* ------------------------------------------------------------ file system
\* The DT image files the entries name.  lnk.dtb is a symbolic link to a.dtb.
FileNames == {"a.dtb", "lnk.dtb", "b.dtb"}

\* os.path.realpath(name)
realpath(name) == IF name = "lnk.dtb" THEN "a.dtb" ELSE name

FileContent(path) == IF path = "a.dtb" THEN <<7, 7, 9>> ELSE <<5>>

\* dt_entry_file.read() on a handle the driver has just opened (position 0).
read(dt_file) == FileContent(realpath(dt_file.name))

\* ------------------------------------------------------------ zlib
\* The deflate stream of x, modelled as one stored block: a block header, the
\* length and the bytes.
Deflate(x) == <<1, Len(x)>> \o x

RECURSIVE ByteSum(_)
ByteSum(x) == IF x = << >> THEN 0 ELSE (Head(x) + ByteSum(Tail(x))) % 256

\* zlib.compressobj(): zlib framing (header 0x78 0x9c, checksum trailer).
zlib_compress(x) == <<120, 156>> \o Deflate(x) \o << ByteSum(x) >>

\* zlib.compressobj(level, DEFLATED, 31): gzip framing (header 0x1f 0x8b,
\* checksum and length trailer).
gzip_compress(x) == <<31, 139>> \o Deflate(x) \o << ByteSum(x), Len(x) % 256 >>

\* compress_dt_entry with the length of the uncompressed file returned in
\* place of len(dt_entry).
compress_dt_entry_rawlen(compression_format, dt_entry_file) ==
    LET raw == read(dt_entry_file)
    IN  IF compression_format = NO_COMPRESSION
        THEN [err |-> NoError, dt_entry |-> raw, len |-> Len(raw)]
        ELSE IF compression_format \notin {NO_COMPRESSION, ZLIB_COMPRESSION, GZIP_COMPRESSION}
        THEN [err |-> Exc("KeyError", "compression_obj_dict"), dt_entry |-> << >>, len |-> 0]
        ELSE LET c == IF compression_format = ZLIB_COMPRESSION
                      THEN zlib_compress(raw) ELSE gzip_compress(raw)
             IN  [err |-> NoError, dt_entry |-> c, len |-> Len(raw)]

\* Dtbo.compress_dt_entry: [err, dt_entry, len].  The ValueError of line 431
\* is built and dropped, so a format outside the dictionary reaches the
\* dictionary lookup of line 436, which raises KeyError.
compress_dt_entry(compression_format, dt_entry_file) ==
    IF compression_format = NO_COMPRESSION
    THEN LET dt_entry == read(dt_entry_file)
         IN  [err |-> NoError, dt_entry |-> dt_entry, len |-> Len(dt_entry)]
    ELSE IF compression_format \notin {NO_COMPRESSION, ZLIB_COMPRESSION, GZIP_COMPRESSION}
    THEN [err |-> Exc("KeyError", "compression_obj_dict"), dt_entry |-> << >>, len |-> 0]
    ELSE LET dt_entry == IF compression_format = ZLIB_COMPRESSION
                         THEN zlib_compress(read(dt_entry_file))
                         ELSE gzip_compress(read(dt_entry_file))
         IN  [err |-> NoError, dt_entry |-> dt_entry, len |-> Len(dt_entry)]

\* ------------------------------------------------------------ state
VARIABLES
    file,               \* bytes of the DTBO file behind the object (self.__file)
    mode,               \* "none": no object yet; "build" / "parse": how the
                        \* object was constructed; "failed": __init__ raised
    magic, total_size, header_size, dt_entry_size, dt_entry_count,
    dt_entries_offset, page_size, version,      \* the header attributes
    dt_entries,         \* self.__dt_entries
    metadata_size,      \* self.__metadata_size
    pc,                 \* "idle", or "adding" inside add_dt_entries' loop
    arg,                \* the list handed to add_dt_entries (the caller's objects)
    k,                  \* add_dt_entries: position of the loop in arg
    dt_offset,          \* add_dt_entries: local dt_offset
    dt_entry_buf,       \* add_dt_entries: local dt_entry_buf
    owner,              \* history: owner[i] iff entry i took the compress branch
    ret,                \* the buffer the last add_dt_entries returned
    err,                \* the exception the last operation raised, or NoError
    op,                 \* history: the last operation
    committed,          \* history: file was written from this build
    ext                 \* what the last operation, if it was an
                        \* extract_dt_file, did: [idx, decompress, passed, data]

hdr == << magic, total_size, header_size, dt_entry_size, dt_entry_count,
          dt_entries_offset, page_size, version >>
addLocals == << arg, k, dt_offset, dt_entry_buf, owner, ret >>
vars == << file, mode, hdr, dt_entries, metadata_size, pc, addLocals, err, op,
           committed, ext >>

\* ------------------------------------------------------------ serialization
\* Dtbo._update_dt_table_header on buffer metadata.
_update_dt_table_header(metadata) ==
    pack_into(metadata, 0,
              magic \o pack_I(total_size) \o pack_I(header_size)
                    \o pack_I(dt_entry_size) \o pack_I(dt_entry_count)
                    \o pack_I(dt_entries_offset) \o pack_I(page_size)
                    \o pack_I(version))

\* _update_dt_entry_header with image_id and rev packed in the other order.
_update_dt_entry_header_swapped(metadata, dt_entry, metadata_offset) ==
    pack_into(metadata, metadata_offset,
              pack_I(dt_entry.dt_size) \o pack_I(dt_entry.dt_offset)
                  \o pack_I(dt_entry.rev) \o pack_I(dt_entry.id)
                  \o pack_I(dt_entry.flags) \o pack_I(dt_entry.custom0)
                  \o pack_I(dt_entry.custom1) \o pack_I(dt_entry.custom2))

\* Dtbo._update_dt_entry_header on buffer metadata.
_update_dt_entry_header(metadata, dt_entry, metadata_offset) ==
    pack_into(metadata, metadata_offset,
              pack_I(dt_entry.dt_size) \o pack_I(dt_entry.dt_offset)
                  \o pack_I(dt_entry.id) \o pack_I(dt_entry.rev)
                  \o pack_I(dt_entry.flags) \o pack_I(dt_entry.custom0)
                  \o pack_I(dt_entry.custom1) \o pack_I(dt_entry.custom2))

RECURSIVE UpdateEntryHeaders(_, _, _)
UpdateEntryHeaders(metadata, i, metadata_offset) ==
    IF i > Len(dt_entries) THEN metadata
    ELSE UpdateEntryHeaders(
             _update_dt_entry_header(metadata, dt_entries[i], metadata_offset),
             i + 1, metadata_offset + dt_entry_size)

\* Dtbo._update_metadata: the metadata buffer, metadata_size spaces with the
\* entry headers and then the table header packed into it.
_update_metadata ==
    _update_dt_table_header(
        UpdateEntryHeaders([p \in 1..metadata_size |-> 32], 1, header_size))

\* ------------------------------------------------------------ parsing
\* struct.unpack_from('>8I', buf, 0) of _read_dtbo_header.
unpack_header(buf) ==
    [ magic             |-> WordBytes(buf, 0),
      total_size        |-> unpack_I(WordBytes(buf, 1)),
      header_size       |-> unpack_I(WordBytes(buf, 2)),
      dt_entry_size     |-> unpack_I(WordBytes(buf, 3)),
      dt_entry_count    |-> unpack_I(WordBytes(buf, 4)),
      dt_entries_offset |-> unpack_I(WordBytes(buf, 5)),
      page_size         |-> unpack_I(WordBytes(buf, 6)),
      version           |-> unpack_I(WordBytes(buf, 7)) ]

\* _read_dtbo_header without the two size checks.
_read_dtbo_header_nosizes(h) ==
    IF h.magic # _DTBO_MAGIC /\ h.magic # _ACPIO_MAGIC
    THEN Exc("ValueError", "Invalid magic number")
    ELSE NoError

\* Dtbo._read_dtbo_header: the verification of the unpacked header h.
_read_dtbo_header(h) ==
    IF h.magic # _DTBO_MAGIC /\ h.magic # _ACPIO_MAGIC
    THEN Exc("ValueError", "Invalid magic number")
    ELSE IF h.header_size # _DT_TABLE_HEADER_SIZE
    THEN Exc("ValueError", "Invalid header size")
    ELSE IF h.dt_entry_size # _DT_ENTRY_HEADER_SIZE
    THEN Exc("ValueError", "Invalid DT entry header size")
    ELSE NoError

Min(a, b) == IF a < b THEN a ELSE b

\* The loop of Dtbo._read_dt_entries_from_metadata over metadata, a tuple of
\* words (each still packed): [dt_entries, err].
RECURSIVE ReadEntries(_, _, _, _)
ReadEntries(metadata, offset, n, acc) ==
    IF n = 0 THEN [dt_entries |-> acc, err |-> NoError]
    ELSE LET dt_table_entry ==
                 SubSeq(metadata, offset + 1,
                        Min(offset + _DT_ENTRY_HEADER_INTS, Len(metadata)))
         IN  IF Len(dt_table_entry) < _DT_ENTRY_HEADER_INTS
             THEN [dt_entries |-> acc,
                   err |-> Exc("IndexError", "tuple index out of range")]
             ELSE ReadEntries(metadata, offset + _DT_ENTRY_HEADER_INTS, n - 1,
                      Append(acc,
                          DtEntry([ dt_file   |-> NoFile,
                                    dt_size   |-> unpack_I(dt_table_entry[1]),
                                    dt_offset |-> unpack_I(dt_table_entry[2]),
                                    id      |-> str(unpack_I(dt_table_entry[3])),
                                    rev     |-> str(unpack_I(dt_table_entry[4])),
                                    flags   |-> str(unpack_I(dt_table_entry[5])),
                                    custom0 |-> str(unpack_I(dt_table_entry[6])),
                                    custom1 |-> str(unpack_I(dt_table_entry[7])),
                                    custom2 |-> str(unpack_I(dt_table_entry[8])) ])))

\* Dtbo._read_dt_entries_from_metadata on a new object (no entries yet).
_read_dt_entries_from_metadata(metadata, h) ==
    ReadEntries(metadata, h.dt_entries_offset \div 4, h.dt_entry_count, << >>)

\* Dtbo._read_dtbo_image on file f: [hread, h, metadata_size, dt_entries, err];
\* hread tells whether the header attributes were assigned, h is their value.
_read_dtbo_image(f) ==
    LET file_size == Len(f)
    IN  IF file_size < _DT_TABLE_HEADER_SIZE
        THEN [hread |-> FALSE, h |-> unpack_header([p \in 1..32 |-> 0]),
              metadata_size |-> 0, dt_entries |-> << >>,
              err |-> Exc("ValueError", "Invalid DTBO file")]
        ELSE
        LET h    == unpack_header(SubSeq(f, 1, _DT_TABLE_HEADER_SIZE))
            herr == _read_dtbo_header(h)
            msz  == h.header_size + h.dt_entry_count * h.dt_entry_size
            num_ints == _DT_TABLE_HEADER_INTS
                          + h.dt_entry_count * _DT_ENTRY_HEADER_INTS
                          + IF h.dt_entries_offset > _DT_TABLE_HEADER_SIZE
                            THEN (h.dt_entries_offset - _DT_TABLE_HEADER_SIZE) \div 4
                            ELSE 0
        IN  IF herr # NoError
            THEN [hread |-> TRUE, h |-> h, metadata_size |-> 0, dt_entries |-> << >>, err |-> herr]
            ELSE IF file_size < msz
            \* line 321: '%' binds to file_size alone, so formatting the
            \* message raises TypeError before ValueError is constructed.
            THEN [hread |-> TRUE, h |-> h, metadata_size |-> msz, dt_entries |-> << >>,
                  err |-> Exc("TypeError", "not enough arguments for format string")]
            ELSE IF 4 * num_ints # msz
            THEN [hread |-> TRUE, h |-> h, metadata_size |-> msz, dt_entries |-> << >>,
                  err |-> Exc("struct.error", "unpack requires a buffer of other size")]
            ELSE LET metadata == [i \in 1..num_ints |-> WordBytes(f, i - 1)]
                     r == _read_dt_entries_from_metadata(metadata, h)
                 IN  [hread |-> TRUE, h |-> h, metadata_size |-> msz,
                      dt_entries |-> r.dt_entries, err |-> r.err]

\* Dtbo._find_dt_entry_with_same_file: the position in dt_entries of the first
\* entry with the same real path, 0 for None.
_find_dt_entry_with_same_file(dt_entry) ==
    LET dt_entry_path == realpath(dt_entry.dt_file.name)
        same == {i \in 1..Len(dt_entries) :
                    realpath(dt_entries[i].dt_file.name) = dt_entry_path}
    IN  IF same = {} THEN 0 ELSE CHOOSE i \in same : \A j \in same : i <= j

\* ------------------------------------------------------------ inputs
\* The keyword arguments the driver builds for one DT image file: numbers as
\* the strings of the command line, offset and size not yet set.
Kw(name, id, rev, flags, custom0, custom1, custom2) ==
    [ dt_file |-> [name |-> name], dt_size |-> 0, dt_offset |-> 0,
      id |-> id, rev |-> rev, flags |-> flags,
      custom0 |-> custom0, custom1 |-> custom1, custom2 |-> custom2 ]

EntryArgs ==
    { Kw("a.dtb",   <<"0","x","1">>, <<"0">>,     <<"0">>,
                    <<"0">>, <<"8">>, <<"0","1","7">>),
      Kw("a.dtb",   <<"2">>,         <<"1","0">>, <<"1">>,
                    <<"9">>, <<"0","x","F","f">>, <<"1","2","3">>),
      Kw("lnk.dtb", <<"3">>,         <<"1">>,     <<"0","x","1","1">>,
                    <<"1">>, <<"2">>, <<"0","X","a","0">>),
      Kw("a.dtb",   <<"4">>,         <<"2">>,     <<"3">>,
                    <<"4">>, <<"5">>, <<"6">>),
      Kw("b.dtb",   <<"0","x","7","f","f","f","f","f","f","f">>, <<"7">>, <<"2">>,
                    <<"6","5","5","3","6">>, <<"0","1","0">>,
                    <<"2","1","4","7","4","8","3","6","4","7">>) }

EntryInputs == { DtEntry(kw) : kw \in EntryArgs }

EntryLists == UNION { [1..n -> EntryInputs] : n \in 0..MaxEntries }

\* The lists tried on an object that is not a fresh build-mode one: the empty
\* list and the lists of one entry.  (A populated object rejects every list
\* before looking into it.)
ShortLists == { l \in EntryLists : Len(l) <= 1 }

\* A list element that is no DtEntry object (here a file name), and whether
\* an element is one: isinstance(dt_entry, DtEntry).
NotAnEntry == [str |-> "a.dtb"]
isinstance_DtEntry(x) == "dt_file" \in DOMAIN x

\* Lists with an element that is no DtEntry, alone or behind one entry.
InvalidLists ==
    { << NotAnEntry >> } \cup { << e, NotAnEntry >> : e \in EntryInputs }

NoExtract == [idx |-> 0, decompress |-> FALSE, passed |-> FALSE, data |-> << >>]

\* Images handed to the parser that no build of this model wrote.
CraftedEntry ==
    pack_I(2) \o pack_I(96) \o pack_I(1) \o pack_I(2) \o pack_I(1)
        \o pack_I(8) \o pack_I(10) \o pack_I(2147483647)

RECURSIVE Repeat(_, _)
Repeat(x, n) == IF n = 0 THEN << >> ELSE x \o Repeat(x, n - 1)

CraftedImage(m, ts, hs, es, c, off, n) ==
    m \o pack_I(ts) \o pack_I(hs) \o pack_I(es) \o pack_I(c) \o pack_I(off)
      \o pack_I(4096) \o pack_I(1) \o Repeat(CraftedEntry, n) \o <<7, 7>>

CraftedImages ==
    { CraftedImage(m, ts, hs, es, c, off, n) :
        m \in {_DTBO_MAGIC, _ACPIO_MAGIC, <<0, 0, 0, 1>>}, ts \in {0, 98},
        hs \in {32, 16}, es \in {32, 8}, c \in 0..2, off \in {4, 32, 36},
        n \in 0..2 }
    \cup { <<215, 183, 171, 30, 0, 0>> }

\* ------------------------------------------------------------ operations
Init ==
    /\ file \in CraftedImages \cup { << >> }
    /\ mode = "none"
    /\ magic = << >> /\ total_size = 0 /\ header_size = 0 /\ dt_entry_size = 0
    /\ dt_entry_count = 0 /\ dt_entries_offset = 0 /\ page_size = 0 /\ version = 0
    /\ dt_entries = << >> /\ metadata_size = 0
    /\ pc = "idle"
    /\ arg = << >> /\ k = 0 /\ dt_offset = 0 /\ dt_entry_buf = << >>
    /\ owner = << >> /\ ret = << >>
    /\ err = NoError /\ op = "init" /\ committed = FALSE
    /\ ext = NoExtract

\* Dtbo.__init__ with a page size: the object of the 'create' command, on an
\* output file opened for writing.
NewBuild(dt_type, ps, ver) ==
    /\ mode = "none" /\ file = << >>
    /\ mode' = "build"
    /\ magic' = IF dt_type = "acpi" THEN _ACPIO_MAGIC ELSE _DTBO_MAGIC
    /\ total_size' = _DT_TABLE_HEADER_SIZE
    /\ header_size' = _DT_TABLE_HEADER_SIZE
    /\ dt_entry_size' = _DT_ENTRY_HEADER_SIZE
    /\ dt_entry_count' = 0
    /\ dt_entries_offset' = _DT_TABLE_HEADER_SIZE
    /\ page_size' = ps
    /\ version' = ver
    /\ dt_entries' = << >>
    /\ metadata_size' = _DT_TABLE_HEADER_SIZE
    /\ err' = NoError /\ op' = "new"
    /\ UNCHANGED << file, pc, addLocals, committed, ext >>

\* Dtbo.__init__ without a page size: _read_dtbo_image on the file, either a
\* crafted image or the one this build committed.
NewParse ==
    /\ pc = "idle"
    /\ mode = "none" \/ (mode = "build" /\ committed)
    /\ LET r == _read_dtbo_image(file)
       IN  /\ mode' = IF r.err = NoError THEN "parse" ELSE "failed"
           /\ IF ~r.hread
              THEN UNCHANGED hdr
              ELSE /\ magic' = r.h.magic
                   /\ total_size' = r.h.total_size
                   /\ header_size' = r.h.header_size
                   /\ dt_entry_size' = r.h.dt_entry_size
                   /\ dt_entry_count' = r.h.dt_entry_count
                   /\ dt_entries_offset' = r.h.dt_entries_offset
                   /\ page_size' = r.h.page_size
                   /\ version' = r.h.version
           /\ dt_entries' = r.dt_entries
           /\ metadata_size' = r.metadata_size
           /\ err' = r.err
    /\ op' = "parse"
    /\ UNCHANGED << file, pc, addLocals, committed, ext >>

\* The opening checks without the one on entries already held.
add_dt_entries_check_nostate(new_entries) ==
    IF new_entries = << >>
    THEN Exc("ValueError", "Attempted to add empty list of DT entries")
    ELSE NoError

\* The two checks that open Dtbo.add_dt_entries.
add_dt_entries_check(new_entries) ==
    IF new_entries = << >>
    THEN Exc("ValueError", "Attempted to add empty list of DT entries")
    ELSE IF dt_entries # << >>
    THEN Exc("ValueError", "DTBO DT entries can be added only once")
    ELSE NoError

\* Dtbo.add_dt_entries up to its loop.
AddBegin(new_entries) ==
    /\ mode \in {"build", "parse"} /\ pc = "idle"
    /\ op' = "add"
    /\ err' = add_dt_entries_check(new_entries)
    /\ IF err' # NoError
       THEN UNCHANGED << pc, addLocals >>
       ELSE /\ pc' = "adding"
            /\ arg' = new_entries
            /\ k' = 1
            /\ dt_offset' = header_size + Len(new_entries) * dt_entry_size
            /\ dt_entry_buf' = << >>
            /\ owner' = << >>
            /\ UNCHANGED ret
    /\ ext' = NoExtract
    /\ UNCHANGED << file, mode, hdr, dt_entries, metadata_size, committed >>

\* One iteration of the loop of Dtbo.add_dt_entries, and the return after the
\* last one.
AddStep ==
    /\ pc = "adding"
    /\ IF ~isinstance_DtEntry(arg[k])
       THEN /\ err' = Exc("ValueError", "Adding invalid DT entry object to DTBO")
            /\ pc' = "idle"
            /\ UNCHANGED << hdr, dt_entries, metadata_size, addLocals >>
       ELSE
       LET dt_entry == arg[k]
           e  == _find_dt_entry_with_same_file(dt_entry)
           dt_entry_compression_info == compression_info(dt_entry, version)
           alias == e # 0 /\ compression_info(dt_entries[e], version)
                                = dt_entry_compression_info
           c  == compress_dt_entry(dt_entry_compression_info, dt_entry.dt_file)
           attached ==
               IF alias
               THEN [dt_entry EXCEPT !.dt_offset = dt_entries[e].dt_offset,
                                     !.dt_size = dt_entries[e].dt_size]
               ELSE [dt_entry EXCEPT !.dt_offset = dt_offset, !.dt_size = c.len]
       IN  IF ~alias /\ c.err # NoError
           THEN /\ arg' = [arg EXCEPT ![k].dt_offset = dt_offset]
                /\ err' = c.err
                /\ pc' = "idle"
                /\ UNCHANGED << hdr, dt_entries, metadata_size, k, dt_offset,
                                dt_entry_buf, owner, ret >>
           ELSE /\ arg' = [arg EXCEPT ![k] = attached]
                /\ dt_entry_buf' = IF alias THEN dt_entry_buf
                                   ELSE dt_entry_buf \o c.dt_entry
                /\ dt_offset' = IF alias THEN dt_offset ELSE dt_offset + c.len
                /\ total_size' = (IF alias THEN total_size ELSE total_size + c.len)
                                    + dt_entry_size
                /\ dt_entries' = Append(dt_entries, attached)
                /\ dt_entry_count' = dt_entry_count + 1
                /\ metadata_size' = metadata_size + dt_entry_size
                /\ owner' = Append(owner, ~alias)
                /\ k' = k + 1
                /\ IF k = Len(arg)
                   THEN pc' = "idle" /\ ret' = dt_entry_buf'
                   ELSE UNCHANGED << pc, ret >>
                /\ UNCHANGED << magic, header_size, dt_entry_size,
                                dt_entries_offset, page_size, version, err >>
    /\ UNCHANGED << file, mode, op, committed, ext >>

\* Dtbo.commit: the metadata buffer and then the payload buffer written to the
\* file, by the driver after add_dt_entries returned.
Commit ==
    /\ mode = "build" /\ pc = "idle" /\ op = "add" /\ err = NoError
    /\ ~committed
    /\ file' = _update_metadata \o ret
    /\ committed' = TRUE
    /\ op' = "commit"
    /\ UNCHANGED << mode, hdr, dt_entries, metadata_size, pc, addLocals, err, ext >>

\* zlib.decompress(c, 47): zlib or gzip framing found by its header;
\* [err, data].
zlib_decompress(c) ==
    LET bad == [err |-> Exc("zlib.error", "incorrect header check"), data |-> << >>]
    IN  IF Len(c) >= 5 /\ c[1] = 120 /\ c[2] = 156 /\ c[3] = 1 /\ Len(c) = c[4] + 5
        THEN LET x == SubSeq(c, 5, Len(c) - 1)
             IN  IF c[Len(c)] = ByteSum(x) THEN [err |-> NoError, data |-> x] ELSE bad
        ELSE IF Len(c) >= 6 /\ c[1] = 31 /\ c[2] = 139 /\ c[3] = 1 /\ Len(c) = c[4] + 6
        THEN LET x == SubSeq(c, 5, Len(c) - 2)
             IN  IF c[Len(c) - 1] = ByteSum(x) /\ c[Len(c)] = Len(x) % 256
                 THEN [err |-> NoError, data |-> x] ELSE bad
        ELSE bad

\* The bound check that opens Dtbo.extract_dt_file.
extract_index_check(idx) ==
    IF idx > dt_entry_count
    THEN Exc("ValueError", "Invalid index of DtEntry") ELSE NoError

\* The rest of Dtbo.extract_dt_file, for an index that passed the check:
\* size bytes read at the entry's offset, decompressed on request; [err, data].
extract_read(idx, decompress) ==
    LET n == Len(dt_entries)
    IN  IF idx >= n \/ idx < -n
        THEN [err |-> Exc("IndexError", "list index out of range"), data |-> << >>]
        ELSE LET dt_entry == dt_entries[IF idx < 0 THEN n + idx + 1 ELSE idx + 1]
                 raw == SubSeq(file, dt_entry.dt_offset + 1,
                               Min(dt_entry.dt_offset + dt_entry.dt_size, Len(file)))
                 compression_format == compression_info(dt_entry, version)
             IN  IF decompress /\ compression_format # NO_COMPRESSION
                 THEN IF compression_format \in {ZLIB_COMPRESSION, GZIP_COMPRESSION}
                      THEN zlib_decompress(raw)
                      ELSE [err |-> Exc("ValueError", "Unknown compression format detected"),
                            data |-> << >>]
                 ELSE [err |-> NoError, data |-> raw]

\* Dtbo.extract_dt_file on a parsed image.
Extract(idx, decompress) ==
    /\ mode = "parse" /\ pc = "idle"
    /\ op' = "extract"
    /\ LET chk == extract_index_check(idx)
           r   == extract_read(idx, decompress)
       IN  IF chk # NoError
           THEN /\ err' = chk
                /\ ext' = [idx |-> idx, decompress |-> decompress,
                           passed |-> FALSE, data |-> << >>]
           ELSE /\ err' = r.err
                /\ ext' = [idx |-> idx, decompress |-> decompress,
                           passed |-> TRUE, data |-> r.data]
    /\ UNCHANGED << file, mode, hdr, dt_entries, metadata_size, pc, addLocals,
                    committed >>

Next ==
    \/ \E dt_type \in {"dtb", "acpi"}, ver \in {0, 1} : NewBuild(dt_type, 4096, ver)
    \/ NewParse
    \/ \E new_entries \in (IF mode = "build" /\ dt_entries = << >>
                           THEN EntryLists \cup InvalidLists ELSE ShortLists) :
           AddBegin(new_entries)
    \/ AddStep
    \/ Commit
    \/ \E idx \in -1..(dt_entry_count + 1), decompress \in BOOLEAN :
           Extract(idx, decompress)

Spec == Init /\ [][Next]_vars

\* ------------------------------------------------------------ properties
\* add_dt_entries has returned its buffer (no exception) and nothing was
\* called on the object since.
AddSucceeded == mode = "build" /\ pc = "idle" /\ op = "add" /\ err = NoError

\* The last operation was an add_dt_entries that raised inside its loop.
AddFailedInLoop ==
    /\ pc = "idle" /\ op = "add" /\ err # NoError
    /\ err # Exc("ValueError", "Attempted to add empty list of DT entries")
    /\ err # Exc("ValueError", "DTBO DT entries can be added only once")

SameSource(i, j) ==
    /\ realpath(arg[i].dt_file.name) = realpath(arg[j].dt_file.name)
    /\ compression_info(arg[i], version) = compression_info(arg[j], version)

\* C1: after a successful add_dt_entries, any two entries of the supplied list
\* with the same real source path and the same resolved compression format
\* have equal offset and equal size, and only one of them put its payload
\* into the returned buffer.
C1_Dedup ==
    AddSucceeded =>
        \A i, j \in 1..Len(arg) :
            (i < j /\ SameSource(i, j)) =>
                /\ arg[i].dt_offset = arg[j].dt_offset
                /\ arg[i].dt_size = arg[j].dt_size
                /\ ~(owner[i] /\ owner[j])

EntryTuple(e) ==
    << e.id, e.rev, e.flags, e.custom0, e.custom1, e.custom2, e.dt_size >>

\* C2: parsing the file a build committed succeeds and yields as many entries
\* as were supplied, with the same (id, rev, flags, custom0-2, size) at every
\* position.
C2_RoundTrip ==
    (committed /\ mode \in {"parse", "failed"}) =>
        /\ mode = "parse"
        /\ dt_entry_count = Len(arg)
        /\ Len(dt_entries) = Len(arg)
        /\ \A i \in 1..Len(arg) : EntryTuple(dt_entries[i]) = EntryTuple(arg[i])

C2_Witness ==
    /\ committed /\ mode = "parse" /\ Len(arg) = 3
    /\ arg[1].id # arg[2].id
    /\ \E i \in 1..3 : arg[i].custom2 = 2147483647 /\ arg[i].dt_size > 0
    /\ \E i \in 1..3 : arg[i].custom1 = 255 /\ arg[i].rev = 10

\* Sum of the sizes of the entries before position i that own their payload.
RECURSIVE OwnedBefore(_)
OwnedBefore(i) ==
    IF i <= 1 THEN 0
    ELSE OwnedBefore(i - 1) + IF owner[i - 1] THEN arg[i - 1].dt_size ELSE 0

\* compress(format, payload) of the spec, on the codec of this model.
Compressed(fmt, x) ==
    CASE fmt = NO_COMPRESSION -> x
      [] fmt = ZLIB_COMPRESSION -> zlib_compress(x)
      [] fmt = GZIP_COMPRESSION -> gzip_compress(x)

\* C3: in the image made of the serialized metadata and the returned buffer,
\* the bytes at [offset, offset + size) of every entry are the compressed
\* source of that entry; the entries that own a payload lie one after the
\* other in list order from header_size + N * entry_header_size; and
\* extracting an entry of the parsed image with decompression gives the
\* source's bytes.
C3_PayloadLayout ==
    /\ AddSucceeded =>
         LET image == _update_metadata \o ret
             N == Len(arg)
         IN  /\ Len(_update_metadata) = header_size + N * dt_entry_size
             /\ \A i \in 1..N :
                  /\ SubSeq(image, arg[i].dt_offset + 1,
                            arg[i].dt_offset + arg[i].dt_size)
                       = Compressed(compression_info(arg[i], version),
                                    FileContent(realpath(arg[i].dt_file.name)))
                  /\ owner[i] =>
                       arg[i].dt_offset
                         = header_size + N * dt_entry_size + OwnedBefore(i)
             /\ Len(image) = header_size + N * dt_entry_size + OwnedBefore(N + 1)
    /\ ( /\ committed /\ mode = "parse" /\ op = "extract"
         /\ ext.decompress /\ ext.idx \in 0..(Len(arg) - 1) )
       => /\ err = NoError
          /\ ext.data = FileContent(realpath(arg[ext.idx + 1].dt_file.name))

C3_Witness ==
    /\ committed /\ mode = "parse" /\ op = "extract" /\ ext.decompress
    /\ ext.idx = 2 /\ Len(arg) = 3 /\ version = 1
    /\ owner = <<TRUE, FALSE, TRUE>>
    /\ compression_info(arg[3], version) = GZIP_COMPRESSION
    /\ compression_info(arg[1], version) = ZLIB_COMPRESSION

\* C4: after a successful add_dt_entries of N entries on a build-mode object:
\* entry count N, entries offset and header size 32, metadata size 32 + 32 N,
\* and total_size = 32 + 32 N + the sizes of the entries that own a payload
\* = 32 + 32 N + the length of the returned buffer (an alias adds its entry
\* header alone).
C4_Sizes ==
    AddSucceeded =>
        LET N == Len(arg)
        IN  /\ dt_entry_count = N
            /\ dt_entries_offset = 32 /\ header_size = 32
            /\ metadata_size = 32 + 32 * N
            /\ total_size = 32 + 32 * N + OwnedBefore(N + 1)
            /\ total_size = 32 + 32 * N + Len(ret)

C4_Witness ==
    /\ AddSucceeded /\ Len(arg) = 3 /\ version = 1
    /\ owner = <<TRUE, FALSE, TRUE>> /\ arg[1].dt_size # arg[3].dt_size
    /\ arg[1].dt_size > 3

\* C5: a step of add_dt_entries' opening checks (the only steps that set op to
\* "add" from an idle object) is rejected when the list is empty or the object
\* already holds entries, with the matching ValueError, and a rejected call
\* leaves entries, entry count, total size and metadata size as they were;
\* an accepted call has a non-empty list.
C5_OneShot ==
    [][ (pc = "idle" /\ op' = "add") =>
          \/ /\ pc' = "idle"
             /\ \/ err' = Exc("ValueError", "Attempted to add empty list of DT entries")
                \/ /\ dt_entries # << >>
                   /\ err' = Exc("ValueError", "DTBO DT entries can be added only once")
             /\ UNCHANGED << dt_entries, dt_entry_count, total_size, metadata_size >>
          \/ /\ pc' = "adding" /\ dt_entries = << >> /\ arg' # << >>
             /\ UNCHANGED << dt_entries, dt_entry_count, total_size, metadata_size >>
      ]_vars

C5_Witness ==
    /\ mode = "build" /\ pc = "idle" /\ op = "add" /\ Len(dt_entries) = 2
    /\ err = Exc("ValueError", "DTBO DT entries can be added only once")
    /\ dt_entries[2].dt_offset > 0

\* C6: every constructed object has total_size >= header_size +
\* entry_count * entry_header_size and entries_table_offset >= header_size.
C6_HeaderInvariants ==
    mode \in {"build", "parse"} =>
        /\ total_size >= header_size + dt_entry_count * dt_entry_size
        /\ dt_entries_offset >= header_size

FileHeader == unpack_header(SubSeq(file, 1, _DT_TABLE_HEADER_SIZE))

ValidMagic(h) == h.magic \in {_DTBO_MAGIC, _ACPIO_MAGIC}

\* C7: parsing an image of at least header_size bytes, with valid magic,
\* header size and entry header size, that is shorter than header_size +
\* entry_count * 32 fails with the ValueError of a truncated file and leaves
\* no entries.
C7_Truncation ==
    ( /\ op = "parse" /\ Len(file) >= 32
      /\ ValidMagic(FileHeader)
      /\ FileHeader.header_size = 32 /\ FileHeader.dt_entry_size = 32
      /\ Len(file) < 32 + FileHeader.dt_entry_count * 32 )
    => /\ mode = "failed"
       /\ err = Exc("ValueError", "Invalid or truncated DTBO file")
       /\ dt_entries = << >>

\* C8: an add_dt_entries whose loop stopped at an entry with a resolved
\* compression format outside {0, 1, 2} raised the ValueError of the codec's
\* format check.
C8_UnsupportedFormat ==
    ( /\ AddFailedInLoop /\ k \in 1..Len(arg)
      /\ isinstance_DtEntry(arg[k])
      /\ compression_info(arg[k], version)
            \notin {NO_COMPRESSION, ZLIB_COMPRESSION, GZIP_COMPRESSION} )
    => err = Exc("ValueError", "Bad compression format")

\* C9: an index that is not below entry_count does not pass the bound check of
\* extract_dt_file.
C9_IndexBound ==
    (op = "extract" /\ ext.idx >= 0 /\ ext.passed) => ext.idx <= dt_entry_count - 1

\* C10: parsing an image of at least 32 bytes with a magic that is neither
\* constant fails with the invalid-magic error; with a valid magic and a
\* header size other than 32, with the invalid-header-size error; with those
\* valid and an entry header size other than 32, with the
\* invalid-entry-header-size error; and in each case no entry is read.
C10_HeaderValidation ==
    (op = "parse" /\ Len(file) >= 32) =>
        LET h == FileHeader
            rejected(msg) ==
                /\ mode = "failed" /\ err = Exc("ValueError", msg)
                /\ dt_entries = << >> /\ metadata_size = 0
        IN  /\ ~ValidMagic(h) => rejected("Invalid magic number")
            /\ (ValidMagic(h) /\ h.header_size # 32)
                  => rejected("Invalid header size")
            /\ (ValidMagic(h) /\ h.header_size = 32 /\ h.dt_entry_size # 32)
                  => rejected("Invalid DT entry header size")

C10_Witness ==
    /\ op = "parse" /\ mode = "failed" /\ Len(file) >= 64
    /\ FileHeader.dt_entry_count > 0
    /\ err = Exc("ValueError", "Invalid DT entry header size")

\* C11: after an add_dt_entries on a build-mode object that raised inside its
\* loop (an element that is no DtEntry, or a compression failure), the object
\* is as before the call: no entry attached, entry count 0, total size and
\* metadata size those of the bare header.
C11_NoPartialState ==
    (AddFailedInLoop /\ mode = "build") =>
        /\ dt_entries = << >>
        /\ dt_entry_count = 0
        /\ total_size = _DT_TABLE_HEADER_SIZE
        /\ metadata_size = _DT_TABLE_HEADER_SIZE

====
